---------------------------- MODULE Spec2Model ----------------------------
(***************************************************************************)
(* A model of hvox/rat: the sequential (insertion-ordered) sets of         *)
(* libs/sequential_sets_v169.py and the LR(1) syntax engine of             *)
(* libs/syntax_lsp_friendly_v208.py with the scanners of                   *)
(* libs/token_parsers.py and rat.py.                                       *)
(*                                                                         *)
(* Conventions.  A Python list is a TLA+ sequence; the element at Python   *)
(* position k is seq[k + 1].  A Python dict is a function whose DOMAIN is  *)
(* its key set.  Python's None, where it stands beside integers, is the    *)
(* empty tuple <<>> and an integer h beside it is <<h>>; where it stands   *)
(* beside symbol names it is the string NoneSym.  An exception is the      *)
(* name of its class in the field err ("" when the call returned).         *)
(***************************************************************************)
EXTENDS Integers, Sequences, FiniteSets, TLC

VARIABLES
    sets,       \* the set objects: 1 is the set under test, 2 a snapshot freeze() built
    frozen,     \* 0, or the object freeze() returned (1 when it returned self)
    call,       \* the last call: [op, on, args, err, ret]
    calls,      \* the number of calls made so far
    grammar,    \* what the Syntax and its LR1Parser were built from
    cache,      \* the parser's cached properties: None until computed
    cur_source, \* parse(): source, the text
    cur_offset, \* parse(): offset, where the first token is scanned
    stack,      \* parse(): the stack of states and nodes
    cur_token,  \* parse(): token, the current token
    cur_span,   \* parse(): (i, j), its span
    pc,         \* "idle", "loop" (parse() is running), "returned", "raised"
    returned,   \* Some(the node parse() returned)
    raised,     \* the exception parse() raised
    parses,     \* the number of parse() calls so far
    fix         \* Syntax.prefixes under way: its rule_list, its locals

setVars == <<sets, frozen, call, calls>>
parseVars ==
    <<grammar, cache, cur_source, cur_offset, stack, cur_token, cur_span, pc, returned, raised, parses>>
fixVars == <<fix>>
vars == <<setVars, parseVars, fixVars>>

-----------------------------------------------------------------------------
(* Bounds of the model *)

\* elements are the integers 1..MaxElem
MaxElem == 3
\* a growing call is taken only while the list is shorter than this
MaxLen == 3
\* the iterables given to the constructor and to update() are no longer than this
MaxIter == 2
\* a run makes at most this many calls after the construction
MaxCalls == 3
\* every text of at most this many characters of Alphabet is parsed
MaxText == 2
\* a shift is taken only while the stack has fewer cells than this
MaxStack == 11
\* a parser is asked to parse at most this many times
MaxParses == 2
\* prefixes is computed for every grammar of at most this many rules
MaxRules == 2

Elems == 1 .. MaxElem
Positions == (0 - (MaxLen + 1)) .. (MaxLen + 1)
Iterables == UNION {[1 .. n -> Elems] : n \in 0 .. MaxIter}

-----------------------------------------------------------------------------
(* Python's list and dict primitives *)

None == <<>>
Some(x) == <<x>>

Range(seq) == {seq[k] : k \in 1 .. Len(seq)}

\* list[i]: the 0-based position i denotes, negative i counting from the end
Norm(n, i) == IF i < 0 THEN i + n ELSE i
InRange(n, i) == Norm(n, i) >= 0 /\ Norm(n, i) < n
GetItem(list, i) == list[Norm(Len(list), i) + 1]

\* list.pop(i), for i in range
ListPop(list, i) ==
    LET k == Norm(Len(list), i) + 1
    IN  SubSeq(list, 1, k - 1) \o SubSeq(list, k + 1, Len(list))

\* list[i] = v, for i in range
ListSet(list, i, v) == [list EXCEPT ![Norm(Len(list), i) + 1] = v]

\* the position list.insert(i, v) and the slice list[i:] clamp i to
Clamp(n, i) == IF i < 0 THEN (IF i + n < 0 THEN 0 ELSE i + n) ELSE (IF i > n THEN n ELSE i)

\* list.insert(i, v): never fails, i is clamped to 0..len
ListInsert(list, i, v) ==
    LET k == Clamp(Len(list), i) + 1
    IN  SubSeq(list, 1, k - 1) \o <<v>> \o SubSeq(list, k, Len(list))

\* list[i:]
SliceFrom(list, i) == SubSeq(list, Clamp(Len(list), i) + 1, Len(list))

\* dict[k] = v and del dict[k]
DictSet(d, k, v) == [x \in (DOMAIN d) \cup {k} |-> IF x = k THEN v ELSE d[x]]
DictDel(d, k) == [x \in (DOMAIN d) \ {k} |-> d[x]]
DictLen(d) == Cardinality(DOMAIN d)
EmptyDict == [x \in {} |-> 0]

\* list(dict.fromkeys(iterable)): the first occurrence of each value, in order
RECURSIVE FromKeys(_, _)
FromKeys(iterable, acc) ==
    IF iterable = <<>> THEN acc
    ELSE FromKeys(Tail(iterable),
                  IF Head(iterable) \in Range(acc) THEN acc
                  ELSE Append(acc, Head(iterable)))

\* for index, value in enumerate(elems, index): indexes[value] = index
RECURSIVE Enumerate(_, _, _)
Enumerate(indexes, elems, index) ==
    IF elems = <<>> THEN indexes
    ELSE Enumerate(DictSet(indexes, Head(elems), index), Tail(elems), index + 1)

\* hash(n) of a small non-negative int is n; sum(map(hash, values))
RECURSIVE SumHash(_)
SumHash(list) == IF list = <<>> THEN 0 ELSE Head(list) + SumHash(Tail(list))

-----------------------------------------------------------------------------
(* The outcome of a call on a set s: the set afterwards, the exception     *)
(* raised ("" for none) and the value returned (None for none).            *)

Ok(s, ret) == [s |-> s, err |-> "", ret |-> ret]
Raise(s, e) == [s |-> s, err |-> e, ret |-> None]

Classes == {"MutableSequentialSet", "MutableOrHashableSequentialSet", "DynSet"}

\* SequentialSet.__init__ (and the subclasses' __init__, which add hash = None)
SequentialSet_init(cls, iterable) ==
    LET vals == FromKeys(iterable, <<>>)
    IN  [cls |-> cls,
         values |-> vals,
         indexes |-> Enumerate(EmptyDict, vals, 0),
         hash |-> None]

\* SequentialSet.__contains__
Contains(s, element) == element \in DOMAIN s.indexes

\* SequentialSet.index
SequentialSet_index(s, value, start, stop) ==
    LET real_stop == IF stop # None THEN stop[1] ELSE 1073741824
        i == IF value \in DOMAIN s.indexes THEN s.indexes[value] ELSE 0 - 1
    IN  IF i # 0 - 1 /\ start <= i /\ i < real_stop THEN i ELSE 0 - 1


-----------------------------------------------------------------------------
(* class MutableSequentialSet *)

\* MutableSequentialSet.__delitem__
MutableSequentialSet_delitem(s, i) ==
    IF ~InRange(Len(s.values), i) THEN Raise(s, "IndexError")
    ELSE LET value == GetItem(s.values, i)
             popped == [s EXCEPT !.values = ListPop(s.values, i)]
         IN  IF value \notin DOMAIN s.indexes THEN Raise(popped, "KeyError")
             ELSE Ok([popped EXCEPT !.indexes =
                        Enumerate(DictDel(s.indexes, value),
                                  SliceFrom(popped.values, i), i)], None)

\* MutableSequentialSet.__setitem__
MutableSequentialSet_setitem(s, i, new_value) ==
    IF ~InRange(Len(s.values), i) THEN Raise(s, "IndexError")
    ELSE LET old_value == GetItem(s.values, i)
         IN  IF new_value = old_value THEN Ok(s, None)
             ELSE IF new_value \in DOMAIN s.indexes THEN Raise(s, "ValueError")
             ELSE IF old_value \notin DOMAIN s.indexes THEN Raise(s, "KeyError")
             ELSE Ok([s EXCEPT !.values = ListSet(s.values, i, new_value),
                               !.indexes = DictSet(DictDel(s.indexes, old_value),
                                                   new_value, i)], None)

\* MutableSequentialSet.insert
MutableSequentialSet_insert(s, index, value) ==
    IF value \in DOMAIN s.indexes THEN Raise(s, "ValueError")
    ELSE LET vals == ListInsert(s.values, index, value)
         IN  Ok([s EXCEPT !.values = vals,
                          !.indexes = Enumerate(s.indexes, SliceFrom(vals, index), index)],
                None)

\* MutableSequentialSet.add
MutableSequentialSet_add(s, value) ==
    IF value \notin DOMAIN s.indexes
    THEN Ok([s EXCEPT !.indexes = DictSet(s.indexes, value, Len(s.values)),
                      !.values = Append(s.values, value)], None)
    ELSE Ok(s, None)

\* MutableSequentialSet.push
MutableSequentialSet_push(s, element) ==
    LET i == IF element \in DOMAIN s.indexes THEN s.indexes[element]
             ELSE DictLen(s.indexes)
    IN  IF i = Len(s.values)
        THEN Ok([s EXCEPT !.indexes = DictSet(s.indexes, element, i),
                          !.values = Append(s.values, element)], Some(i))
        ELSE Ok(s, Some(i))

\* MutableSequentialSet.remove
MutableSequentialSet_remove(s, value) ==
    IF value \notin DOMAIN s.indexes THEN Raise(s, "KeyError")
    ELSE LET i == s.indexes[value]
             popped == [s EXCEPT !.indexes = DictDel(s.indexes, value)]
         IN  IF s.values = <<>> THEN Raise(popped, "IndexError")
             ELSE LET filler == s.values[Len(s.values)]
                      vals == SubSeq(s.values, 1, Len(s.values) - 1)
                      shorter == [popped EXCEPT !.values = vals]
                  IN  IF i < DictLen(popped.indexes)
                      THEN IF ~InRange(Len(vals), i) THEN Raise(shorter, "IndexError")
                           ELSE Ok([shorter EXCEPT
                                      !.values = ListSet(vals, i, filler),
                                      !.indexes = DictSet(popped.indexes, filler, i)],
                                   None)
                      ELSE Ok(shorter, None)

-----------------------------------------------------------------------------
(* class MutableOrHashableSequentialSet *)

\* MutableOrHashableSequentialSet.__delitem__
MutableOrHashableSequentialSet_delitem(s, index) ==
    IF s.hash # None THEN Raise(s, "ValueError")
    ELSE MutableSequentialSet_delitem(s, index)

\* MutableOrHashableSequentialSet.__setitem__
MutableOrHashableSequentialSet_setitem(s, i, new_value) ==
    IF ~InRange(Len(s.values), i) THEN Raise(s, "IndexError")
    ELSE LET old_value == GetItem(s.values, i)
         IN  IF new_value = old_value THEN Ok(s, None)
             ELSE IF new_value \in DOMAIN s.indexes THEN Raise(s, "ValueError")
             ELSE IF s.hash # None THEN Raise(s, "ValueError")
             ELSE IF old_value \notin DOMAIN s.indexes THEN Raise(s, "KeyError")
             ELSE Ok([s EXCEPT !.values = ListSet(s.values, i, new_value),
                               !.indexes = DictSet(DictDel(s.indexes, old_value),
                                                   new_value, i)], None)

\* MutableOrHashableSequentialSet.insert
MutableOrHashableSequentialSet_insert(s, index, value) ==
    IF s.hash # None THEN Raise(s, "ValueError")
    ELSE MutableSequentialSet_insert(s, index, value)

\* MutableOrHashableSequentialSet.add
MutableOrHashableSequentialSet_add(s, value) ==
    IF value \notin DOMAIN s.indexes
    THEN IF s.hash # None THEN Raise(s, "ValueError")
         ELSE Ok([s EXCEPT !.indexes = DictSet(s.indexes, value, Len(s.values)),
                           !.values = Append(s.values, value)], None)
    ELSE Ok(s, None)

\* MutableOrHashableSequentialSet.push
MutableOrHashableSequentialSet_push(s, element) ==
    LET i == IF element \in DOMAIN s.indexes THEN s.indexes[element]
             ELSE DictLen(s.indexes)
    IN  IF i = Len(s.values)
        THEN IF s.hash # None THEN Raise(s, "ValueError")
             ELSE Ok([s EXCEPT !.indexes = DictSet(s.indexes, element, i),
                               !.values = Append(s.values, element)], Some(i))
        ELSE Ok(s, Some(i))

\* MutableOrHashableSequentialSet.remove
MutableOrHashableSequentialSet_remove(s, value) ==
    IF s.hash # None THEN Raise(s, "ValueError")
    ELSE MutableSequentialSet_remove(s, value)

-----------------------------------------------------------------------------
(* class DynSet(MutableSequentialSet, HashableSequentialSet) *)

\* DynSet.__delitem__
DynSet_delitem(s, index) ==
    IF s.hash # None THEN Raise(s, "ValueError")
    ELSE MutableSequentialSet_delitem(s, index)

\* DynSet.__setitem__: no test of self.hash before the call of super()
DynSet_setitem(s, i, new_value) == MutableSequentialSet_setitem(s, i, new_value)

\* DynSet.insert
DynSet_insert(s, index, value) ==
    IF s.hash # None THEN Raise(s, "ValueError")
    ELSE MutableSequentialSet_insert(s, index, value)

\* DynSet.add
DynSet_add(s, value) ==
    IF s.hash # None THEN Raise(s, "ValueError")
    ELSE MutableSequentialSet_add(s, value)

\* DynSet.push
DynSet_push(s, element) ==
    IF s.hash # None THEN Raise(s, "ValueError")
    ELSE MutableSequentialSet_push(s, element)

\* DynSet.remove
DynSet_remove(s, value) ==
    IF s.hash # None THEN Raise(s, "ValueError")
    ELSE MutableSequentialSet_remove(s, value)

-----------------------------------------------------------------------------
(* class HashableSequentialSet and the methods the classes inherit *)

\* HashableSequentialSet.__hash__, MutableOrHashableSequentialSet.__hash__;
\* a MutableSequentialSet is unhashable (Set defines __eq__ and no __hash__)
Hash(s) ==
    IF s.cls = "MutableSequentialSet" THEN Raise(s, "TypeError")
    ELSE LET h == IF s.hash = None THEN Some(SumHash(s.values)) ELSE s.hash
         IN  Ok([s EXCEPT !.hash = h], h)

\* A HashableSequentialSet is a Sequence and a Set only: it has no mutating
\* method (AttributeError) and supports no item assignment or deletion (TypeError)
Delitem(s, i) ==
    CASE s.cls = "MutableSequentialSet" -> MutableSequentialSet_delitem(s, i)
      [] s.cls = "MutableOrHashableSequentialSet" ->
            MutableOrHashableSequentialSet_delitem(s, i)
      [] s.cls = "DynSet" -> DynSet_delitem(s, i)
      [] OTHER -> Raise(s, "TypeError")

Setitem(s, i, v) ==
    CASE s.cls = "MutableSequentialSet" -> MutableSequentialSet_setitem(s, i, v)
      [] s.cls = "MutableOrHashableSequentialSet" ->
            MutableOrHashableSequentialSet_setitem(s, i, v)
      [] s.cls = "DynSet" -> DynSet_setitem(s, i, v)
      [] OTHER -> Raise(s, "TypeError")

Insert(s, i, v) ==
    CASE s.cls = "MutableSequentialSet" -> MutableSequentialSet_insert(s, i, v)
      [] s.cls = "MutableOrHashableSequentialSet" ->
            MutableOrHashableSequentialSet_insert(s, i, v)
      [] s.cls = "DynSet" -> DynSet_insert(s, i, v)
      [] OTHER -> Raise(s, "AttributeError")

Add(s, v) ==
    CASE s.cls = "MutableSequentialSet" -> MutableSequentialSet_add(s, v)
      [] s.cls = "MutableOrHashableSequentialSet" ->
            MutableOrHashableSequentialSet_add(s, v)
      [] s.cls = "DynSet" -> DynSet_add(s, v)
      [] OTHER -> Raise(s, "AttributeError")

Push(s, v) ==
    CASE s.cls = "MutableSequentialSet" -> MutableSequentialSet_push(s, v)
      [] s.cls = "MutableOrHashableSequentialSet" ->
            MutableOrHashableSequentialSet_push(s, v)
      [] s.cls = "DynSet" -> DynSet_push(s, v)
      [] OTHER -> Raise(s, "AttributeError")

Remove(s, v) ==
    CASE s.cls = "MutableSequentialSet" -> MutableSequentialSet_remove(s, v)
      [] s.cls = "MutableOrHashableSequentialSet" ->
            MutableOrHashableSequentialSet_remove(s, v)
      [] s.cls = "DynSet" -> DynSet_remove(s, v)
      [] OTHER -> Raise(s, "AttributeError")

\* MutableSequentialSet.discard, MutableOrHashableSequentialSet.discard
Discard(s, value) ==
    IF s.cls = "HashableSequentialSet" THEN Raise(s, "AttributeError")
    ELSE IF value \in DOMAIN s.indexes THEN Remove(s, value)
    ELSE Ok(s, None)

\* MutableSequentialSet.update, MutableOrHashableSequentialSet.update
RECURSIVE Update(_, _)
Update(s, elements) ==
    IF s.cls = "HashableSequentialSet" THEN Raise(s, "AttributeError")
    ELSE IF elements = <<>> THEN Ok(s, None)
    ELSE LET r == Add(s, Head(elements))
         IN  IF r.err # "" THEN r ELSE Update(r.s, Tail(elements))

\* MutableSequence.pop, which the mutable classes inherit:
\* v = self[index]; del self[index]; return v
Pop(s, index) ==
    IF s.cls = "HashableSequentialSet" THEN Raise(s, "AttributeError")
    ELSE IF ~InRange(Len(s.values), index) THEN Raise(s, "IndexError")
    ELSE LET v == GetItem(s.values, index)
             r == Delitem(s, index)
         IN  IF r.err # "" THEN r ELSE Ok(r.s, Some(v))

\* SequentialSet.freeze: self when self is a HashableSequentialSet (a DynSet
\* is one), else a new HashableSequentialSet built from self.values
FreezeReturnsSelf(s) == s.cls \in {"HashableSequentialSet", "DynSet"}
Freeze(s) == SequentialSet_init("HashableSequentialSet", s.values)

-----------------------------------------------------------------------------
(* libs/syntax_lsp_friendly_v208.py.  Its Set is DynSet.  The syntax code   *)
(* builds and changes its sets only through __init__, add, update, push    *)
(* and remove of a member, which keep indexes equal to the positions of    *)
(* values, so a set is here the sequence of its values: __init__ is        *)
(* FromKeys, and two sets are equal when they hold the same elements       *)
(* (Set.__eq__), in whatever order.                                        *)

NoneSym == "<None>"

\* Set(iterable)
DynSet(iterable) == FromKeys(iterable, <<>>)

\* DynSet.add on an unhashed set
SetAdd(vals, v) == IF v \in Range(vals) THEN vals ELSE Append(vals, v)

\* DynSet.update
RECURSIVE SetUpdate(_, _)
SetUpdate(vals, elements) ==
    IF elements = <<>> THEN vals
    ELSE SetUpdate(SetAdd(vals, Head(elements)), Tail(elements))

\* DynSet.remove of a member: the last element fills the position left
SetRemove(vals, v) ==
    LET i == CHOOSE k \in 1 .. Len(vals) : vals[k] = v
        filler == vals[Len(vals)]
        rest == SubSeq(vals, 1, Len(vals) - 1)
    IN  IF i - 1 < Len(rest) THEN [rest EXCEPT ![i] = filler] ELSE rest

\* Set.__eq__ of two sets
SameSet(a, b) == Range(a) = Range(b)

\* DynSet.push of a set into a set of sets: the position and the values after
SetPush(vals, element) ==
    LET found == {k \in 1 .. Len(vals) : SameSet(vals[k], element)}
    IN  IF found # {}
        THEN [i |-> (CHOOSE k \in found : TRUE) - 1, values |-> vals]
        ELSE [i |-> Len(vals), values |-> Append(vals, element)]

\* class Rule, class LR1Item
Rule(head, body) == [head |-> head, body |-> body]
LR1Item(dot, rule, follower) == [dot |-> dot, rule |-> rule, follower |-> follower]

\* LR1Item.next
LR1Item_next(item) ==
    IF item.dot < Len(item.rule.body) THEN item.rule.body[item.dot + 1] ELSE NoneSym

\* LR1Item.tail
LR1Item_tail(item) == SubSeq(item.rule.body, item.dot + 2, Len(item.rule.body))

\* head for head, _ in rule_list
RECURSIVE Heads(_)
Heads(rule_list) ==
    IF rule_list = <<>> THEN <<>>
    ELSE <<Head(rule_list).head>> \o Heads(Tail(rule_list))

\* t for _, ts in rule_list for t in ts
RECURSIVE Bodies(_)
Bodies(rule_list) ==
    IF rule_list = <<>> THEN <<>>
    ELSE Head(rule_list).body \o Bodies(Tail(rule_list))

\* x for x in seq if x not in excluded
RECURSIVE Without(_, _)
Without(seq, excluded) ==
    IF seq = <<>> THEN <<>>
    ELSE (IF Head(seq) \in excluded THEN <<>> ELSE <<Head(seq)>>)
         \o Without(Tail(seq), excluded)

\* Syntax.nodes
Syntax_nodes(rule_list) == DynSet(Heads(rule_list))

\* Syntax.symbols
Syntax_symbols(rule_list) ==
    SetUpdate(DynSet(Bodies(rule_list)), Syntax_nodes(rule_list))

\* Syntax.tokens
Syntax_tokens(rule_list) ==
    DynSet(Without(Syntax_symbols(rule_list), Range(Syntax_nodes(rule_list))))

\* Syntax.rules
RECURSIVE RulesOf(_, _)
RulesOf(rule_list, head) ==
    IF rule_list = <<>> THEN <<>>
    ELSE (IF Head(rule_list).head = head THEN <<Head(rule_list)>> ELSE <<>>)
         \o RulesOf(Tail(rule_list), head)

Syntax_rules(rule_list) ==
    [node \in Range(Syntax_nodes(rule_list)) |-> DynSet(RulesOf(rule_list, node))]

\* the firsts assigned to the node's set in place of being added to it
AddFirsts_assign(st, node, firsts) ==
    IF Range(firsts) \subseteq Range(st.prefixes[node]) THEN st
    ELSE [prefixes |-> [st.prefixes EXCEPT ![node] = firsts], done |-> FALSE]

\* Syntax.prefixes, lines 139-142 (firsts is exclude_nones(prefixes[body[0]]))
RECURSIVE AddFirsts(_, _, _)
AddFirsts(st, node, firsts) ==
    IF firsts = <<>> THEN st
    ELSE AddFirsts(
            IF Head(firsts) \notin Range(st.prefixes[node])
            THEN [prefixes |-> [st.prefixes EXCEPT ![node] = Append(@, Head(firsts))],
                  done |-> FALSE]
            ELSE st,
            node, Tail(firsts))

\* the scan that never looks past the first symbol of a body
PrefixesOfBody_first(st, node, body) ==
    IF body # <<>> /\ body[1] # NoneSym
    THEN AddFirsts(st, node, Without(st.prefixes[body[1]], {NoneSym}))
    ELSE IF NoneSym \notin Range(st.prefixes[node])
         THEN [prefixes |-> [st.prefixes EXCEPT ![node] = Append(@, NoneSym)],
               done |-> FALSE]
         ELSE st

\* Syntax.prefixes, lines 138-149: the scan of one rule's body
RECURSIVE PrefixesOfBody(_, _, _)
PrefixesOfBody(st, node, body) ==
    IF body # <<>> /\ body[1] # NoneSym
    THEN LET st1 == AddFirsts(st, node, Without(st.prefixes[body[1]], {NoneSym}))
         IN  IF NoneSym \notin Range(st1.prefixes[body[1]]) THEN st1
             ELSE PrefixesOfBody(st1, node, Tail(body))
    ELSE IF NoneSym \notin Range(st.prefixes[node])
         THEN [prefixes |-> [st.prefixes EXCEPT ![node] = Append(@, NoneSym)],
               done |-> FALSE]
         ELSE st

\* Syntax.prefixes, line 137: one pass over rule_list
RECURSIVE PrefixesPass(_, _)
PrefixesPass(st, rule_list) ==
    IF rule_list = <<>> THEN st
    ELSE PrefixesPass(PrefixesOfBody(st, Head(rule_list).head, Head(rule_list).body),
                      Tail(rule_list))

\* Syntax.prefixes, lines 134-136: passes until one changes nothing
RECURSIVE PrefixesLoop(_, _)
PrefixesLoop(prefixes, rule_list) ==
    LET st == PrefixesPass([prefixes |-> prefixes, done |-> TRUE], rule_list)
    IN  IF st.done THEN st.prefixes ELSE PrefixesLoop(st.prefixes, rule_list)

\* Syntax.prefixes
Syntax_prefixes(rule_list) ==
    PrefixesLoop([s \in Range(Syntax_symbols(rule_list)) |->
                    IF s \in Range(Syntax_nodes(rule_list)) THEN <<>> ELSE <<s>>],
                 rule_list)

\* A Syntax with its cached properties computed
Syntax(rule_list, token_parsers) ==
    [rule_list |-> rule_list,
     token_parsers |-> token_parsers,
     nodes |-> Syntax_nodes(rule_list),
     symbols |-> Syntax_symbols(rule_list),
     tokens |-> Syntax_tokens(rule_list),
     rules |-> Syntax_rules(rule_list),
     prefixes |-> Syntax_prefixes(rule_list)]

\* Syntax.get_sequence_prefixes
RECURSIVE SequencePrefixesFrom(_, _, _, _)
SequencePrefixesFrom(syntax, sequence, i, prefixes) ==
    IF NoneSym \in Range(prefixes) /\ i < Len(sequence) /\ sequence[i + 1] # NoneSym
    THEN SequencePrefixesFrom(syntax, sequence, i + 1,
            SetUpdate(SetRemove(prefixes, NoneSym), syntax.prefixes[sequence[i + 1]]))
    ELSE prefixes

get_sequence_prefixes(syntax, sequence) ==
    SequencePrefixesFrom(syntax, sequence, 0, DynSet(<<NoneSym>>))

\* Syntax.lr1_closure, lines 165-167: the items of one rule
RECURSIVE AddItems(_, _, _)
AddItems(item_set, rule, followers) ==
    IF followers = <<>> THEN item_set
    ELSE AddItems(SetAdd(item_set, LR1Item(0, rule, Head(followers))),
                  rule, Tail(followers))

\* Syntax.lr1_closure, line 164: the rules of the next symbol
RECURSIVE AddRules(_, _, _)
AddRules(item_set, rules, followers) ==
    IF rules = <<>> THEN item_set
    ELSE AddRules(AddItems(item_set, Head(rules), followers), Tail(rules), followers)

\* the walk that stops after the first item
ClosureFrom_first(syntax, item_set, k) ==
    AddRules(item_set,
             IF LR1Item_next(item_set[k + 1]) \in DOMAIN syntax.rules
             THEN syntax.rules[LR1Item_next(item_set[k + 1])] ELSE <<>>,
             get_sequence_prefixes(syntax, LR1Item_tail(item_set[k + 1])
                                              \o <<item_set[k + 1].follower>>))

\* Syntax.lr1_closure, line 162: the walk over the growing item_set, at position k
RECURSIVE ClosureFrom(_, _, _)
ClosureFrom(syntax, item_set, k) ==
    IF k >= Len(item_set) THEN item_set
    ELSE LET item == item_set[k + 1]
             followers == get_sequence_prefixes(syntax,
                              LR1Item_tail(item) \o <<item.follower>>)
             rules == IF LR1Item_next(item) \in DOMAIN syntax.rules
                      THEN syntax.rules[LR1Item_next(item)] ELSE <<>>
         IN  ClosureFrom(syntax, AddRules(item_set, rules, followers), k + 1)

\* Syntax.lr1_closure
lr1_closure(syntax, core_items) == ClosureFrom(syntax, DynSet(core_items), 0)

-----------------------------------------------------------------------------
(* class LR1Parser: the tables *)

\* LR1Parser.item_sets_and_gotos, lines 208-212: the items of item_set with
\* next_symbol after the dot, the dot moved over it
RECURSIVE Advance(_, _)
Advance(item_set, next_symbol) ==
    IF item_set = <<>> THEN <<>>
    ELSE LET item == Head(item_set)
         IN  (IF item.dot < Len(item.rule.body)
                  /\ item.rule.body[item.dot + 1] = next_symbol
              THEN <<LR1Item(item.dot + 1, item.rule, item.follower)>>
              ELSE <<>>)
             \o Advance(Tail(item_set), next_symbol)

\* LR1Parser.item_sets_and_gotos, lines 207-213: the symbols, for state i
RECURSIVE GotosOfState(_, _, _, _)
GotosOfState(st, i, item_set, symbols) ==
    IF symbols = <<>> THEN st
    ELSE LET next_set == DynSet(Advance(item_set, Head(symbols)))
             pushed == SetPush(st.item_sets, next_set)
         IN  GotosOfState(
                IF next_set # <<>>
                THEN [item_sets |-> pushed.values,
                      gotos |-> DictSet(st.gotos, <<i, Head(symbols)>>, pushed.i)]
                ELSE st,
                i, item_set, Tail(symbols))

\* the walk over the item sets there were when it began
ItemSetsFrom_snapshot(syntax, st, i) ==
    GotosOfState(st, i, lr1_closure(syntax, st.item_sets[i + 1]), syntax.symbols)

\* LR1Parser.item_sets_and_gotos, line 205: the walk over the growing item_sets
RECURSIVE ItemSetsFrom(_, _, _)
ItemSetsFrom(syntax, st, i) ==
    IF i >= Len(st.item_sets) THEN st
    ELSE ItemSetsFrom(syntax,
            GotosOfState(st, i, lr1_closure(syntax, st.item_sets[i + 1]),
                         syntax.symbols),
            i + 1)

\* LR1Parser.item_sets_and_gotos
item_sets_and_gotos(syntax, root_node) ==
    LET root_item == LR1Item(0, Rule(NoneSym, <<root_node>>), NoneSym)
    IN  ItemSetsFrom(syntax,
                     [item_sets |-> DynSet(<<DynSet(<<root_item>>)>>),
                      gotos |-> EmptyDict],
                     0)

\* the entries of the ACTION table: ("shift", j), ("reduce", rule), ("accept",)
Shift(j) == <<"shift", j>>
Reduce(rule) == <<"reduce", rule>>
Accept == <<"accept">>

\* actions[key] = action with no assert before it
AssertAndSet_overwrite(st, key, action) ==
    IF st.err # "" THEN st
    ELSE [st EXCEPT !.actions = DictSet(st.actions, key, action)]

\* assert key not in actions, "Conflict!"; actions[key] = action
AssertAndSet(st, key, action) ==
    IF st.err # "" THEN st
    ELSE IF key \in DOMAIN st.actions THEN [st EXCEPT !.err = "AssertionError"]
    ELSE [st EXCEPT !.actions = DictSet(st.actions, key, action)]

\* LR1Parser.actions, lines 228-232: the shifts of state i; a j that is
\* absent or 0 is false
RECURSIVE ShiftsOfState(_, _, _, _)
ShiftsOfState(st, gotos, i, tokens) ==
    IF tokens = <<>> \/ st.err # "" THEN st
    ELSE ShiftsOfState(
            IF <<i, Head(tokens)>> \in DOMAIN gotos /\ gotos[<<i, Head(tokens)>>] # 0
            THEN AssertAndSet(st, <<i, Head(tokens)>>,
                              Shift(gotos[<<i, Head(tokens)>>]))
            ELSE st,
            gotos, i, Tail(tokens))

\* the completed items of state i with no test of item.rule.head
RECURSIVE ReducesOfState_anyhead(_, _, _)
ReducesOfState_anyhead(st, i, item_set) ==
    IF item_set = <<>> \/ st.err # "" THEN st
    ELSE LET item == Head(item_set)
         IN  ReducesOfState_anyhead(
                IF item.dot = Len(item.rule.body)
                THEN AssertAndSet(st, <<i, item.follower>>, Reduce(item.rule))
                ELSE st,
                i, Tail(item_set))

\* LR1Parser.actions, lines 233-239: the completed items of state i
RECURSIVE ReducesOfState(_, _, _)
ReducesOfState(st, i, item_set) ==
    IF item_set = <<>> \/ st.err # "" THEN st
    ELSE LET item == Head(item_set)
         IN  ReducesOfState(
                IF item.dot = Len(item.rule.body)
                THEN IF item.rule.head # NoneSym
                     THEN AssertAndSet(st, <<i, item.follower>>, Reduce(item.rule))
                     ELSE IF item.follower = NoneSym
                          THEN AssertAndSet(st, <<i, NoneSym>>, Accept)
                          ELSE st
                ELSE st,
                i, Tail(item_set))

\* LR1Parser.actions, line 227: the states in order
RECURSIVE ActionsFrom(_, _, _, _)
ActionsFrom(syntax, tables, st, i) ==
    IF i >= Len(tables.item_sets) \/ st.err # "" THEN st
    ELSE ActionsFrom(syntax, tables,
            ReducesOfState(ShiftsOfState(st, tables.gotos, i, syntax.tokens),
                           i, lr1_closure(syntax, tables.item_sets[i + 1])),
            i + 1)

\* LR1Parser.actions: the table, or err = "AssertionError"
actions(syntax, tables) ==
    ActionsFrom(syntax, tables, [actions |-> EmptyDict, err |-> ""], 0)

-----------------------------------------------------------------------------
(* The scanners: rat.py and libs/token_parsers.py.  A text is a string; a  *)
(* scanner returns Some(length) or, for ValueError, None.                  *)

\* source[i] and source[i:j] of a str, for 0 <= i <= j
CharAt(source, i) == SubSeq(source, i + 1, i + 1)
Slice(source, i, j) == SubSeq(source, i + 1, IF j > Len(source) THEN Len(source) ELSE j)

\* str.isalpha and str.isalnum on the characters of the model's texts
Letters == {"a", "b", "f", "u", "x", "y"}
Digits == {"1"}
IsAlpha(c) == c \in Letters
IsAlnum(c) == c \in Letters \cup Digits

\* rat.py, parse_identifier
parse_identifier(source, offset) ==
    IF ~IsAlpha(CharAt(source, offset)) THEN None
    ELSE LET i == offset
             j == offset + 1
             j2 == IF j < Len(source)
                      /\ (IsAlnum(CharAt(source, j)) \/ CharAt(source, j) = "_")
                   THEN j + 1 ELSE j
         IN  Some(j2 - i)

\* token_parsers.get_keyword_parser(keyword)
keyword_parser(keyword, source, offset) ==
    IF Slice(source, offset, offset + Len(keyword)) # keyword THEN None
    ELSE Some(Len(keyword))

\* token_parsers.ignore_spaces, token_parsers.ignore_spaces_and_newlines:
\* the loop, over the characters in blanks
RECURSIVE CountSpaces(_, _, _, _)
CountSpaces(source, offset, spaces, blanks) ==
    IF offset + spaces < Len(source) /\ CharAt(source, offset + spaces) \in blanks
    THEN CountSpaces(source, offset, spaces + 1, blanks)
    ELSE spaces

ignore_spaces(source, offset) == Some(CountSpaces(source, offset, 0, {" ", "\t"}))

ignore_spaces_and_newlines(source, offset) ==
    Some(CountSpaces(source, offset, 0, {" ", "\t", "\n"}))

\* token_parsers.TOKEN_PARSERS
TOKEN_PARSERS == ("" :> "ignore_spaces") @@ (" " :> "ignore_spaces_and_newlines")

\* scanner(source, i), for the scanner registered for a token
Scanner(parser, source, i) ==
    CASE parser.scanner = "parse_identifier" -> parse_identifier(source, i)
      [] parser.scanner = "ignore_spaces" -> ignore_spaces(source, i)
      [] parser.scanner = "ignore_spaces_and_newlines" ->
            ignore_spaces_and_newlines(source, i)
      [] OTHER -> keyword_parser(parser.token, source, i)

-----------------------------------------------------------------------------
(* Syntax.from_description, Syntax.from_rules, Syntax.scan_token *)

\* str.split(sep) for a one-character sep: word is the word being read
RECURSIVE StrSplit(_, _, _)
StrSplit(string, sep, word) ==
    IF string = "" THEN <<word>>
    ELSE IF CharAt(string, 0) = sep
         THEN <<word>> \o StrSplit(Tail(string), sep, "")
         ELSE StrSplit(Tail(string), sep, word \o CharAt(string, 0))

\* split_str, lines 12-15: the loop over the words
RECURSIVE SplitStrLoop(_, _, _)
SplitStrLoop(words, sep, result) ==
    IF words = <<>> THEN result
    ELSE LET word == Head(words)
             last == result[Len(result)]
         IN  IF word = "" /\ result # <<>>
                /\ (last = "" \/ (Len(last) >= 1 /\ CharAt(last, 0) = sep))
             THEN SplitStrLoop(Tail(words), sep,
                               Append(SubSeq(result, 1, Len(result) - 1), last \o sep))
             ELSE SplitStrLoop(Tail(words), sep, Append(result, word))

\* split_str
split_str(string, sep) == SplitStrLoop(StrSplit(string, sep, ""), sep, <<>>)

\* Syntax.from_description, lines 80-84: the rules of the descriptions
RECURSIVE RealRules(_)
RealRules(rules) ==
    IF rules = <<>> THEN <<>>
    ELSE LET words == split_str(Head(rules), " ")
         IN  <<Rule(Head(words), Tail(words))>> \o RealRules(Tail(rules))

\* Syntax.from_rules, lines 96-102: the scanner of each token, in the order
\* of the tokens
RECURSIVE TokenParsers(_, _)
TokenParsers(tokens, extra_parsers) ==
    IF tokens = <<>> THEN <<>>
    ELSE LET token == Head(tokens)
         IN  <<[token |-> token,
                scanner |-> IF token \in DOMAIN extra_parsers THEN extra_parsers[token]
                            ELSE IF token \in DOMAIN TOKEN_PARSERS
                                 THEN TOKEN_PARSERS[token]
                                 ELSE "keyword"]>>
             \o TokenParsers(Tail(tokens), extra_parsers)

\* Syntax.from_rules
from_rules(rules, extra_parsers) ==
    Syntax(rules,
           TokenParsers(DynSet(Without(Bodies(rules), Range(Heads(rules)))),
                        extra_parsers))

\* Syntax.from_description
from_description(rules, extra_parsers) == from_rules(RealRules(rules), extra_parsers)

\* the loop over token_parsers with length >= max_len
RECURSIVE ScanLoop_last(_, _, _, _)
ScanLoop_last(token_parsers, source, i, best) ==
    IF token_parsers = <<>> THEN best
    ELSE LET length == Scanner(Head(token_parsers), source, i)
         IN  ScanLoop_last(Tail(token_parsers), source, i,
                           IF length # None /\ length[1] >= best.max_len
                           THEN [max_len |-> length[1],
                                 recognised_token |-> Head(token_parsers).token]
                           ELSE best)

\* Syntax.scan_token, lines 178-185: the loop over token_parsers
RECURSIVE ScanLoop(_, _, _, _)
ScanLoop(token_parsers, source, i, best) ==
    IF token_parsers = <<>> THEN best
    ELSE LET length == Scanner(Head(token_parsers), source, i)
         IN  ScanLoop(Tail(token_parsers), source, i,
                      IF length # None /\ length[1] > best.max_len
                      THEN [max_len |-> length[1],
                            recognised_token |-> Head(token_parsers).token]
                      ELSE best)

\* Syntax.scan_token: the token and its span, or err = "ValueError"
scan_token(syntax, source, i) ==
    IF i >= Len(source) THEN [err |-> "", token |-> NoneSym, span |-> <<i, i>>]
    ELSE LET best == ScanLoop(syntax.token_parsers, source, i,
                              [max_len |-> 0 - 1, recognised_token |-> "???"])
         IN  IF best.max_len = 0 - 1
             THEN [err |-> "ValueError", token |-> "???", span |-> <<i, i>>]
             ELSE [err |-> "", token |-> best.recognised_token,
                   span |-> <<i, i + best.max_len>>]

-----------------------------------------------------------------------------
(* The grammars and texts of the model *)

\* rat.py, lines 51-54: the demo grammar and its parser
rules == <<"stmts identifier  =  expr", "expr identifier">>
token_parsers == [identifier |-> "parse_identifier"]
DemoGrammar ==
    [rule_list |-> RealRules(rules), extra_parsers |-> token_parsers,
     root_node |-> "stmts"]

\* the same grammar with the body identifier "=" expr
StmtsGrammar ==
    [rule_list |-> <<Rule("stmts", <<"identifier", "=", "expr">>),
                     Rule("expr", <<"identifier">>)>>,
     extra_parsers |-> token_parsers, root_node |-> "stmts"]

\* a terminal whose scanner may consume nothing, before a recursive rule
SpacesGrammar ==
    [rule_list |-> <<Rule("S", <<"", "S">>), Rule("S", <<"a">>)>>,
     extra_parsers |-> EmptyDict, root_node |-> "S"]

\* two reduces, a shift and a reduce, an accept and a reduce on one lookahead
ReduceReduceGrammar ==
    [rule_list |-> <<Rule("S", <<"A">>), Rule("S", <<"B">>),
                     Rule("A", <<"a">>), Rule("B", <<"a">>)>>,
     extra_parsers |-> EmptyDict, root_node |-> "S"]

ShiftReduceGrammar ==
    [rule_list |-> <<Rule("E", <<"E", "+", "E">>), Rule("E", <<"a">>)>>,
     extra_parsers |-> EmptyDict, root_node |-> "E"]

AcceptReduceGrammar ==
    [rule_list |-> <<Rule("S", <<"S">>), Rule("S", <<"a">>)>>,
     extra_parsers |-> EmptyDict, root_node |-> "S"]

\* a keyword and the identifier scanner that match the same text
KeywordGrammar ==
    [rule_list |-> <<Rule("S", <<"x", "identifier">>),
                     Rule("S", <<"identifier", "=">>)>>,
     extra_parsers |-> token_parsers, root_node |-> "S"]

\* a rule with an empty body
EmptyGrammar ==
    [rule_list |-> <<Rule("A", <<>>), Rule("A", <<"x", "B">>), Rule("B", <<"b">>)>>,
     extra_parsers |-> EmptyDict, root_node |-> "A"]

\* a left-recursive start nonterminal, without conflict
ListGrammar ==
    [rule_list |-> <<Rule("L", <<"L", "a">>), Rule("L", <<"b">>)>>,
     extra_parsers |-> EmptyDict, root_node |-> "L"]

Grammars ==
    {DemoGrammar, StmtsGrammar, SpacesGrammar, ReduceReduceGrammar,
     ShiftReduceGrammar, AcceptReduceGrammar, KeywordGrammar, EmptyGrammar,
     ListGrammar}

\* the texts: those of rat.py and the spec, and every short text
Alphabet == {"x", "=", "@", " ", "a", "b"}

RECURSIVE Texts(_)
Texts(n) ==
    IF n = 0 THEN {""}
    ELSE Texts(n - 1) \cup {s \o c : s \in Texts(n - 1), c \in Alphabet}

Sources == {"x=fuy", "x@y", "x=y", "x = y", "x=x1", "a+a"} \cup Texts(MaxText)

\* the offsets parse is called with: the default and one past an empty text
Offsets == {0, 1}

\* what the parser's cached properties hold once computed
TablesOf(syntax, root_node, tables) ==
    [syntax |-> syntax, tables |-> tables, actions |-> actions(syntax, tables)]

\* syntax.get_parser_for(root_node)
get_parser_for(syntax, root_node) ==
    TablesOf(syntax, root_node, item_sets_and_gotos(syntax, root_node))

\* Syntax.from_rules(...).get_parser_for(...) of every grammar
Built == [g \in Grammars |->
             get_parser_for(from_rules(g.rule_list, g.extra_parsers), g.root_node)]

-----------------------------------------------------------------------------
(* LR1Parser.parse as a state machine: a step is the call with its first   *)
(* scan, or one turn of the loop.                                          *)

\* class Node
Node(name, span, value) == [name |-> name, span |-> span, value |-> value]

NoError == [exc |-> "", msg |-> "", token |-> "", span |-> <<0, 0>>, expected |-> {}]

\* scan_token's ValueError(f"Unrecognized token at position {i}")
Unrecognized(i) == [NoError EXCEPT !.exc = "ValueError", !.msg = "Unrecognized token",
                                   !.span = <<i, i>>]

\* self.actions, a cached_property, of the parser built: the table
\* (computing it, and before it item_sets_and_gotos, on the first use) or
\* the AssertionError, which leaves actions not cached
CachedActions(built) ==
    IF cache.actions # None
    THEN [err |-> "", actions |-> cache.actions[1], cache |-> cache]
    ELSE IF built.actions.err # ""
    THEN [err |-> built.actions.err, actions |-> EmptyDict,
          cache |-> [cache EXCEPT !.item_sets_and_gotos = Some(built.tables)]]
    ELSE [err |-> "", actions |-> built.actions.actions,
          cache |-> [item_sets_and_gotos |-> Some(built.tables),
                     actions |-> Some(built.actions.actions)]]

ActionsProperty == CachedActions(Built[grammar])

\* table.get((stack[-1], token))
Lookup(table) ==
    IF <<stack[Len(stack)], cur_token>> \in DOMAIN table
    THEN table[<<stack[Len(stack)], cur_token>>]
    ELSE <<"None">>

ParseInit ==
    /\ grammar \in Grammars
    /\ cache = [item_sets_and_gotos |-> None, actions |-> None]
    /\ cur_source = ""
    /\ cur_offset = 0
    /\ stack = <<>>
    /\ cur_token = NoneSym
    /\ cur_span = <<0, 0>>
    /\ pc = "idle"
    /\ returned = None
    /\ raised = NoError
    /\ parses = 0

\* token, (i, j) = scan, the outcome of scan_token(source, offset); what
\* the call's variables held is of no account once it has raised
Scanned(scan, offset) ==
    IF scan.err # ""
    THEN /\ pc' = "raised"
         /\ raised' = Unrecognized(offset)
         /\ cur_token' = NoneSym
         /\ cur_span' = <<offset, offset>>
    ELSE /\ pc' = "loop"
         /\ cur_token' = scan.token
         /\ cur_span' = scan.span
         /\ raised' = NoError

\* parse(source, offset), lines 244-245
Parse ==
    /\ pc # "loop"
    /\ parses < MaxParses
    /\ parses' = parses + 1
    /\ \E text \in Sources, offset \in Offsets :
          /\ cur_source' = text
          /\ cur_offset' = offset
          /\ Scanned(scan_token(Built[grammar].syntax, text, offset), offset)
    /\ stack' = <<0>>
    /\ returned' = None
    /\ UNCHANGED <<grammar, cache>>
    /\ UNCHANGED <<setVars, fixVars>>

\* line 247 when the ACTION table cannot be built
ConflictTurn(prop) ==
    /\ prop.err # ""
    /\ pc' = "raised"
    /\ raised' = [NoError EXCEPT !.exc = prop.err, !.msg = "Conflict!"]
    /\ cache' = prop.cache
    /\ UNCHANGED <<grammar, cur_source, cur_offset, stack, cur_token, cur_span, returned, parses>>

Conflict ==
    pc = "loop" /\ ConflictTurn(ActionsProperty) /\ UNCHANGED <<setVars, fixVars>>

\* case None with the expected tokens those of the state at the bottom of
\* the stack
UnexpectedTurn_bottom(prop, action) ==
    /\ prop.err = ""
    /\ action = <<"None">>
    /\ pc' = "raised"
    /\ raised' = [exc |-> "ValueError", msg |-> "Unexpected token",
                  token |-> cur_token, span |-> cur_span,
                  expected |-> {key[2] : key \in
                                   {k \in DOMAIN prop.actions : k[1] = stack[1]}}]
    /\ cache' = prop.cache
    /\ UNCHANGED <<grammar, cur_source, cur_offset, stack, cur_token, cur_span, returned, parses>>

\* case None, lines 248-252
UnexpectedTurn(prop, action) ==
    /\ prop.err = ""
    /\ action = <<"None">>
    /\ pc' = "raised"
    /\ raised' = [exc |-> "ValueError", msg |-> "Unexpected token",
                  token |-> cur_token, span |-> cur_span,
                  expected |-> {key[2] : key \in
                                   {k \in DOMAIN prop.actions : k[1] = stack[Len(stack)]}}]
    /\ cache' = prop.cache
    /\ UNCHANGED <<grammar, cur_source, cur_offset, stack, cur_token, cur_span, returned, parses>>

Unexpected ==
    /\ pc = "loop"
    /\ UnexpectedTurn(ActionsProperty, Lookup(ActionsProperty.actions))
    /\ UNCHANGED <<setVars, fixVars>>

\* case ("shift", state), lines 253-256
ShiftTurn(prop, action) ==
    /\ prop.err = ""
    /\ action[1] = "shift"
    /\ Len(stack) < MaxStack
    /\ stack' = stack \o <<Node(cur_token, cur_span,
                                Slice(cur_source, cur_span[1], cur_span[2])),
                           action[2]>>
    /\ Scanned(scan_token(Built[grammar].syntax, cur_source, cur_span[2]), cur_span[2])
    /\ cache' = prop.cache
    /\ UNCHANGED <<grammar, cur_source, cur_offset, returned, parses>>

ShiftStep ==
    /\ pc = "loop"
    /\ ShiftTurn(ActionsProperty, Lookup(ActionsProperty.actions))
    /\ UNCHANGED <<setVars, fixVars>>

\* stack[-n:: 2], for n > 0 and from = max(len(stack) - n, 0)
RECURSIVE EveryOther(_, _)
EveryOther(list, from) ==
    IF from >= Len(list) THEN <<>>
    ELSE <<list[from + 1]>> \o EveryOther(list, from + 2)

\* the reduce that looks GOTO up from the state on top before the pop
Reduced_top(rule, rest, body, gotos) ==
    IF rest = <<>> THEN [err |-> "IndexError", stack |-> stack]
    ELSE IF <<stack[Len(stack)], rule.head>> \notin DOMAIN gotos
    THEN [err |-> "KeyError", stack |-> stack]
    ELSE [err |-> "",
          stack |-> rest \o
             <<Node(rule.head, <<body[1].span[1], body[Len(body)].span[2]>>, body),
               gotos[<<stack[Len(stack)], rule.head>>]>>]

\* lines 258-264 with rest = stack[:-n] and body = stack[-n::2]
Reduced(rule, rest, body, gotos) ==
    IF rest = <<>> THEN [err |-> "IndexError", stack |-> stack]
    ELSE IF <<rest[Len(rest)], rule.head>> \notin DOMAIN gotos
    THEN [err |-> "KeyError", stack |-> stack]
    ELSE [err |-> "",
          stack |-> rest \o
             <<Node(rule.head, <<body[1].span[1], body[Len(body)].span[2]>>, body),
               gotos[<<rest[Len(rest)], rule.head>>]>>]

\* the first position of stack[-n:], which is 0 when n = 0 or n > len(stack)
SliceStart(n) == IF n = 0 \/ Len(stack) - n < 0 THEN 0 ELSE Len(stack) - n

\* case ("reduce", rule), lines 257-264: the stack afterwards or the error
ReduceOutcome(rule, gotos) ==
    Reduced(rule, SubSeq(stack, 1, SliceStart(Len(rule.body) * 2)),
            EveryOther(stack, SliceStart(Len(rule.body) * 2)), gotos)

ReduceTurn(prop, action, out) ==
    /\ prop.err = ""
    /\ action[1] = "reduce"
    /\ IF out.err # ""
       THEN /\ pc' = "raised"
            /\ raised' = [NoError EXCEPT !.exc = out.err]
            /\ UNCHANGED stack
       ELSE /\ stack' = out.stack
            /\ UNCHANGED <<pc, raised>>
    /\ cache' = prop.cache
    /\ UNCHANGED <<grammar, cur_source, cur_offset, cur_token, cur_span, returned, parses>>

ReduceWith(prop, action) ==
    ReduceTurn(prop, action,
               ReduceOutcome(action[2], prop.cache.item_sets_and_gotos[1].gotos))

ReduceStep ==
    /\ pc = "loop"
    /\ ReduceWith(ActionsProperty, Lookup(ActionsProperty.actions))
    /\ UNCHANGED <<setVars, fixVars>>

\* the accept that returns the node under the name of the current token
AcceptTurn_token(prop, action) ==
    /\ prop.err = ""
    /\ action[1] = "accept"
    /\ pc' = "returned"
    /\ returned' = Some(Node(cur_token, stack[2].span, stack[2].value))
    /\ cache' = prop.cache
    /\ UNCHANGED <<grammar, cur_source, cur_offset, stack, cur_token, cur_span, raised, parses>>


\* case ("accept",), lines 265-266
AcceptTurn(prop, action) ==
    /\ prop.err = ""
    /\ action[1] = "accept"
    /\ pc' = "returned"
    /\ returned' = Some(stack[2])
    /\ cache' = prop.cache
    /\ UNCHANGED <<grammar, cur_source, cur_offset, stack, cur_token, cur_span, raised, parses>>

AcceptStep ==
    /\ pc = "loop"
    /\ AcceptTurn(ActionsProperty, Lookup(ActionsProperty.actions))
    /\ UNCHANGED <<setVars, fixVars>>

\* the sets are not part of a parser run, nor a parser of a run of the sets
NoSets ==
    /\ sets = <<>>
    /\ frozen = 0
    /\ call = [op |-> "init", on |-> 1, args |-> <<>>, err |-> "", ret |-> None]
    /\ calls = 0

NoParser ==
    /\ grammar = StmtsGrammar
    /\ cache = [item_sets_and_gotos |-> None, actions |-> None]
    /\ cur_source = ""
    /\ cur_offset = 0
    /\ stack = <<>>
    /\ cur_token = NoneSym
    /\ cur_span = <<0, 0>>
    /\ pc = "idle"
    /\ returned = None
    /\ raised = NoError
    /\ parses = 0

\* Syntax.prefixes is not under way
NoFix == fix = [pc |-> "idle"]

ParserInit == ParseInit /\ NoSets /\ NoFix

ParserNext ==
    \/ Parse
    \/ Conflict
    \/ Unexpected
    \/ ShiftStep
    \/ ReduceStep
    \/ AcceptStep

ParserSpec == ParserInit /\ [][ParserNext]_vars

-----------------------------------------------------------------------------
(* Syntax.prefixes as a state machine: a step is the scan of one rule of   *)
(* rule_list, or the test of done after a pass.                            *)

\* the grammars prefixes is computed for: rules with a body of up to two
\* symbols; a symbol that heads no rule of a grammar is a token of it
RuleSymbols == {"A", "B", "x", "y"}
RuleBodies == {<<>>} \cup {<<a>> : a \in RuleSymbols}
                     \cup {<<a, b>> : a \in RuleSymbols, b \in RuleSymbols}
RuleSet == {Rule(head, body) : head \in {"A", "B"}, body \in RuleBodies}
RuleLists == UNION {[1 .. n -> RuleSet] : n \in 0 .. MaxRules}

\* lines 131-132: no prefix for a node, itself for a token
InitialPrefixes(rule_list) ==
    [s \in Range(Syntax_symbols(rule_list)) |->
        IF s \in Range(Syntax_nodes(rule_list)) THEN <<>> ELSE <<s>>]

FixInit ==
    /\ \E rule_list \in RuleLists :
          fix = [pc |-> "pass", rule_list |-> rule_list,
                 prefixes |-> InitialPrefixes(rule_list),
                 done |-> TRUE, k |-> 0, passes |-> 1]
    /\ NoSets
    /\ NoParser

\* lines 137-149: the rule at position k of the pass
ScanRule ==
    /\ fix.pc = "pass"
    /\ fix.k < Len(fix.rule_list)
    /\ LET st == PrefixesOfBody([prefixes |-> fix.prefixes, done |-> fix.done],
                                fix.rule_list[fix.k + 1].head,
                                fix.rule_list[fix.k + 1].body)
       IN  fix' = [fix EXCEPT !.prefixes = st.prefixes, !.done = st.done, !.k = fix.k + 1]
    /\ UNCHANGED <<setVars, parseVars>>

\* lines 134-136: a pass changed a set, another pass begins
NextPass ==
    /\ fix.pc = "pass"
    /\ fix.k = Len(fix.rule_list)
    /\ ~fix.done
    /\ fix' = [fix EXCEPT !.done = TRUE, !.k = 0, !.passes = fix.passes + 1]
    /\ UNCHANGED <<setVars, parseVars>>

\* lines 134 and 150: a pass changed nothing, prefixes is returned
ReturnPrefixes ==
    /\ fix.pc = "pass"
    /\ fix.k = Len(fix.rule_list)
    /\ fix.done
    /\ fix' = [fix EXCEPT !.pc = "returned"]
    /\ UNCHANGED <<setVars, parseVars>>

FixNext ==
    \/ ScanRule
    \/ NextPass
    \/ ReturnPrefixes

FixSpec == FixInit /\ [][FixNext]_vars

-----------------------------------------------------------------------------
(* Properties of the parser *)

\* the actions LR1Parser.actions would enter for a state: a shift for each
\* goto on a token, a reduce or the accept for each completed item
Claims(syntax, tables, i) ==
    {<<<<i, t>>, "shift", tables.gotos[<<i, t>>]>> :
        t \in {u \in Range(syntax.tokens) : <<i, u>> \in DOMAIN tables.gotos}}
    \cup
    {IF item.rule.head # NoneSym
     THEN <<<<i, item.follower>>, "reduce", item.rule>>
     ELSE <<<<i, NoneSym>>, "accept", 0>> :
        item \in {it \in Range(lr1_closure(syntax, tables.item_sets[i + 1])) :
                     /\ it.dot = Len(it.rule.body)
                     /\ it.rule.head = NoneSym => it.follower = NoneSym}}

\* two actions claim the same (state, lookahead) pair
HasConflict(built) ==
    \E i \in 0 .. Len(built.tables.item_sets) - 1 :
        \E c1, c2 \in Claims(built.syntax, built.tables, i) :
            /\ c1[1] = c2[1]
            /\ c1[2] # c2[2] \/ c1[3] # c2[3]

Conflicting == {g \in Grammars : HasConflict(Built[g])}

\* parse() has raised the error of the assert in LR1Parser.actions
RaisedConflict == pc = "raised" /\ raised.exc = "AssertionError"

\* parse() has raised scan_token's error for its first token
RaisedFirstScan == pc = "raised" /\ raised = Unrecognized(cur_offset) /\ stack = <<0>>

\* C5 as amended: on a parser whose grammar has a conflict no ACTION table
\* is ever published and no call to parse() shifts or reduces or returns:
\* each call raises the conflict error on its first use of the table, or,
\* when no scanner matches at the offset it is called with, has raised the
\* tokenization error before the table is looked at.
C5_ConflictFailsEveryParse ==
    grammar \in Conflicting =>
        /\ cache.actions = None
        /\ Len(stack) <= 1
        /\ pc # "returned"
        /\ pc = "loop" => ActionsProperty.err = "AssertionError"
        /\ pc = "raised" => RaisedConflict \/ RaisedFirstScan

\* C5, witness: a second call on a conflicting grammar has raised the conflict
\* error, the item sets cached by the first call and no ACTION table
C5_Witness ==
    /\ grammar \in Conflicting
    /\ parses = 2
    /\ RaisedConflict
    /\ cache.item_sets_and_gotos # None

\* C5 as stated: every call to parse() on a parser whose grammar has a
\* conflict fails with the conflict error.
C5_EveryParseRaisesConflict ==
    (grammar \in Conflicting /\ pc \in {"returned", "raised"}) => RaisedConflict

\* a call parse(text) has returned or raised
Finished(g, text) ==
    /\ grammar = g
    /\ cur_source = text
    /\ cur_offset = 0
    /\ pc \in {"returned", "raised"}

\* parse() has raised the unexpected-token error for the span beginning at
\* offset i, with token among the expected ones
RaisedUnexpected(i, token) ==
    /\ pc = "raised"
    /\ raised.exc = "ValueError"
    /\ raised.msg = "Unexpected token"
    /\ raised.span[1] = i
    /\ token \in raised.expected

\* C6 as amended: parsing "x@y" with the parser for stmts of rat.py's grammar
\* stmts -> identifier "" "=" "" expr, expr -> identifier, whose terminal ""
\* skips spaces, fails with the unexpected-token error, reported for the
\* empty span at offset 1 where the token "" was scanned, and "=" is among
\* the expected tokens; with the grammar stmts -> identifier "=" expr it fails
\* with the tokenization error for position 1.
C6_UnexpectedTokenAtOffset1 ==
    /\ Finished(DemoGrammar, "x@y") =>
          /\ RaisedUnexpected(1, "=")
          /\ raised.token = ""
          /\ raised.span = <<1, 1>>
    /\ Finished(StmtsGrammar, "x@y") =>
          /\ pc = "raised"
          /\ raised = Unrecognized(1)

\* C6, witness: parse("x@y") of rat.py's grammar has raised
C6_Witness == Finished(DemoGrammar, "x@y") /\ pc = "raised"

\* C6 as stated: parsing "x@y" with the grammar stmts -> identifier "=" expr,
\* expr -> identifier fails with the unexpected-token error at offset 1 and
\* "=" is among the expected tokens.
C6_StmtsGrammarUnexpectedToken ==
    Finished(StmtsGrammar, "x@y") => RaisedUnexpected(1, "=")

\* the tree of C7
FuyTree ==
    Node("stmts", <<0, 5>>,
         <<Node("identifier", <<0, 1>>, "x"),
           Node("=", <<1, 2>>, "="),
           Node("expr", <<2, 5>>, <<Node("identifier", <<2, 5>>, "fuy")>>)>>)

\* C7: parse("x=fuy") of the grammar stmts -> identifier "=" expr,
\* expr -> identifier with rat.py's identifier scanner returns the node
\* stmts [0,5) with the children identifier [0,1) = "x", "=" [1,2) and
\* expr [2,5), whose one child is identifier [2,5) = "fuy".
C7_ParsesFuy ==
    Finished(StmtsGrammar, "x=fuy") => pc = "returned" /\ returned = Some(FuyTree)

\* the last shift left the parser where it was: in the same state, before
\* the same token at the same offset, having consumed nothing
ShiftRepeats ==
    /\ pc = "loop"
    /\ Len(stack) >= 5
    /\ stack[Len(stack)] = stack[Len(stack) - 2]
    /\ stack[Len(stack) - 1] = stack[Len(stack) - 3]
    /\ stack[Len(stack) - 1] = Node(cur_token, cur_span, "")
    /\ Lookup(ActionsProperty.actions) = Shift(stack[Len(stack)])

\* C8: parse() of a conflict-free grammar makes no unbounded number of
\* steps: it never comes to repeat a shift, which it would then repeat for
\* ever, a step depending on no more than the state on top of the stack, the
\* current token and its offset.
C8_NoShiftRepeats == grammar \notin Conflicting => ~ShiftRepeats

\* what each scanner of the syntax reports at offset i: Some(length) or None
Lengths(syntax, source, i) ==
    [k \in 1 .. Len(syntax.token_parsers) |-> Scanner(syntax.token_parsers[k], source, i)]

\* token is the first registered of the scanners reporting the greatest length
GreatestFirst(parsers, lengths, token, length) ==
    \E k \in DOMAIN lengths :
        /\ parsers[k].token = token
        /\ lengths[k] = Some(length)
        /\ \A m \in DOMAIN lengths :
              lengths[m] # None =>
                 /\ lengths[m][1] <= length
                 /\ m < k => lengths[m][1] < length

\* the last scan_token(source, i) returned token and the span <<i, j>>
ScanReturned(syntax, source, token, i, j) ==
    IF i >= Len(source) THEN token = NoneSym /\ j = i
    ELSE GreatestFirst(syntax.token_parsers, Lengths(syntax, source, i), token, j - i)

\* the last scan_token(source, i) raised
ScanRaised(syntax, source, i) ==
    /\ i < Len(source)
    /\ \A k \in 1 .. Len(syntax.token_parsers) : Lengths(syntax, source, i)[k] = None

\* C9: scan_token returns the terminal whose scanner reports the greatest
\* length at the offset, the first registered among those reporting it; the
\* null terminal with an empty span at or past the end of the text; and it
\* fails with the tokenization error exactly when the offset is inside the
\* text and every scanner reports no match.
C9_ScanTokenGreatestFirst ==
    pc # "idle" =>
        IF pc = "raised" /\ raised.msg = "Unrecognized token"
        THEN ScanRaised(Built[grammar].syntax, cur_source, raised.span[1])
        ELSE ScanReturned(Built[grammar].syntax, cur_source, cur_token,
                          cur_span[1], cur_span[2])

\* C9, witness: two scanners reported the greatest length and the token of
\* the one registered first was returned
C9_Witness ==
    /\ pc = "loop"
    /\ cur_span[1] < Len(cur_source)
    /\ \E k, m \in 1 .. Len(Built[grammar].syntax.token_parsers) :
          /\ k < m
          /\ Built[grammar].syntax.token_parsers[k].token = cur_token
          /\ Lengths(Built[grammar].syntax, cur_source, cur_span[1])[k]
                = Some(cur_span[2] - cur_span[1])
          /\ Lengths(Built[grammar].syntax, cur_source, cur_span[1])[m]
                = Some(cur_span[2] - cur_span[1])

-----------------------------------------------------------------------------
(* The sets as a state machine: a set of one of the mutable classes is     *)
(* built from an iterable and then called, as is the object freeze()       *)
(* returned.                                                               *)

Objects == {1} \cup ({frozen} \ {0})

Mutators == {"add", "push", "update", "insert", "setitem", "delitem", "pop",
             "remove", "discard"}

SetInit ==
    /\ \E cls \in Classes, iterable \in Iterables :
          sets = [o \in {1} |-> SequentialSet_init(cls, iterable)]
    /\ frozen = 0
    /\ call = [op |-> "init", on |-> 1, args |-> <<>>, err |-> "", ret |-> None]
    /\ calls = 0
    /\ NoParser
    /\ NoFix

\* the call op(args) on object o with outcome r
Called(op, o, args, r) ==
    /\ calls < MaxCalls
    /\ Len(r.s.values) <= MaxLen
    /\ calls' = calls + 1
    /\ sets' = [sets EXCEPT ![o] = r.s]
    /\ call' = [op |-> op, on |-> o, args |-> args, err |-> r.err, ret |-> r.ret]
    /\ UNCHANGED frozen
    /\ UNCHANGED <<parseVars, fixVars>>

CallAdd == \E o \in Objects, v \in Elems : Called("add", o, <<v>>, Add(sets[o], v))

CallPush == \E o \in Objects, v \in Elems : Called("push", o, <<v>>, Push(sets[o], v))

CallUpdate ==
    \E o \in Objects, it \in Iterables : Called("update", o, it, Update(sets[o], it))

CallInsert ==
    \E o \in Objects, i \in Positions, v \in Elems :
        Called("insert", o, <<i, v>>, Insert(sets[o], i, v))

CallSetitem ==
    \E o \in Objects, i \in Positions, v \in Elems :
        Called("setitem", o, <<i, v>>, Setitem(sets[o], i, v))

CallDelitem ==
    \E o \in Objects, i \in Positions : Called("delitem", o, <<i>>, Delitem(sets[o], i))

CallPop == \E o \in Objects, i \in Positions : Called("pop", o, <<i>>, Pop(sets[o], i))

CallRemove ==
    \E o \in Objects, v \in Elems : Called("remove", o, <<v>>, Remove(sets[o], v))

CallDiscard ==
    \E o \in Objects, v \in Elems : Called("discard", o, <<v>>, Discard(sets[o], v))

CallHash == \E o \in Objects : Called("hash", o, <<>>, Hash(sets[o]))

\* freeze() is called on the set under test, once
CallFreeze ==
    /\ frozen = 0
    /\ calls < MaxCalls
    /\ calls' = calls + 1
    /\ IF FreezeReturnsSelf(sets[1])
       THEN frozen' = 1 /\ UNCHANGED sets
       ELSE frozen' = 2
            /\ sets' = [o \in {1, 2} |-> IF o = 1 THEN sets[1] ELSE Freeze(sets[1])]
    /\ call' = [op |-> "freeze", on |-> 1, args |-> <<>>, err |-> "", ret |-> None]
    /\ UNCHANGED <<parseVars, fixVars>>

SetNext ==
    \/ CallAdd
    \/ CallPush
    \/ CallUpdate
    \/ CallInsert
    \/ CallSetitem
    \/ CallDelitem
    \/ CallPop
    \/ CallRemove
    \/ CallDiscard
    \/ CallHash
    \/ CallFreeze

SetSpec == SetInit /\ [][SetNext]_vars

-----------------------------------------------------------------------------
(* Properties of the sets *)

DualMode == {"DynSet", "MutableOrHashableSequentialSet"}

\* the positions (from 0) at which list holds v
PositionsOf(list, v) == {k \in 0 .. (Len(list) - 1) : list[k + 1] = v}

\* The call c, made on a set whose elements are list, asks for a change of
\* the elements: an add or push of a new value, an insert, a remove of a
\* member, a positional delete, a positional set to a different value.
WouldChange(list, c) ==
    \/ c.op \in {"add", "push"} /\ c.args[1] \notin Range(list)
    \/ c.op = "insert"
    \/ c.op = "remove" /\ c.args[1] \in Range(list)
    \/ c.op = "delitem" /\ InRange(Len(list), c.args[1])
    \/ c.op = "setitem" /\ InRange(Len(list), c.args[1])
                        /\ GetItem(list, c.args[1]) # c.args[2]

\* C1: once a dual-mode set (DynSet, MutableOrHashableSequentialSet) has been
\* hashed, it stays hashed, its element sequence never changes again, and
\* every later call that would change its contents fails with an error.
C1_HashedSetRejectsMutation ==
    [][(sets[1].cls \in DualMode /\ sets[1].hash # None)
         => /\ sets'[1].hash # None
            /\ sets'[1].values = sets[1].values
            /\ (call'.on = 1 /\ WouldChange(sets[1].values, call')) => call'.err # ""
      ]_vars

\* C2: the object freeze() returned is an immutable snapshot: its elements
\* never change afterwards, whatever is called on it or on the set freeze()
\* was called on, and every call on it that would change them fails.
C2_FrozenSnapshotImmutable ==
    [][frozen # 0
         => /\ sets'[frozen].values = sets[frozen].values
            /\ (call'.on = frozen /\ WouldChange(sets[frozen].values, call'))
                  => call'.err # ""
      ]_vars

\* C3: after any sequence of calls on a mutable set, each succeeding or
\* failing, the set holds no two equal elements.
C3_NoTwoEqualElements ==
    \A v \in Elems : Cardinality(PositionsOf(sets[1].values, v)) <= 1

\* a position no element of a list of length n is at (Python's negative
\* positions -n..-1 count as inside), and one insert cannot place a value at
OutOfRange(n, i) == i < 0 - n \/ i >= n
OutOfInsertRange(n, i) == i < 0 - n \/ i > n

\* The call c on a set with elements list is a positional set or insert of
\* a value present at another position, or a positional set, insert or
\* delete at a position outside the current range.
UniquenessViolation(list, c) ==
    \/ /\ c.op = "setitem"
       /\ \/ OutOfRange(Len(list), c.args[1])
          \/ PositionsOf(list, c.args[2]) \ {Norm(Len(list), c.args[1])} # {}
    \/ /\ c.op = "insert"
       /\ \/ OutOfInsertRange(Len(list), c.args[1])
          \/ c.args[2] \in Range(list)
    \/ c.op = "delitem" /\ OutOfRange(Len(list), c.args[1])

\* C4: on a mutable set a positional set or insert of a value already
\* present at another position, and a positional set, insert or delete at a
\* position outside the range, fails and leaves values and indexes unchanged.
C4_UniquenessViolationLeavesSetUnchanged ==
    [][(call'.on = 1 /\ UniquenessViolation(sets[1].values, call'))
         => /\ call'.err # ""
            /\ sets'[1].values = sets[1].values
            /\ sets'[1].indexes = sets[1].indexes
      ]_vars

\* C10: push(v) on a set that contains v returns the position of v and
\* leaves the set unchanged; on a set that does not contain v it appends v
\* and returns the previous length.
C10_PushReturnsPosition ==
    [][(call'.op = "push" /\ sets[call'.on].cls # "HashableSequentialSet")
         => LET s == sets[call'.on]
                v == call'.args[1]
            IN  IF v \in Range(s.values)
                THEN /\ call'.err = ""
                     /\ call'.ret # None
                     /\ call'.ret[1] \in PositionsOf(s.values, v)
                     /\ sets'[call'.on] = s
                ELSE /\ call'.err = ""
                     /\ call'.ret = Some(Len(s.values))
                     /\ sets'[call'.on].values = Append(s.values, v)
      ]_vars

\* indexes maps each element of values, held once, to its position
Sound(s) ==
    /\ \A v \in Range(s.values) : Cardinality(PositionsOf(s.values, v)) = 1
    /\ DOMAIN s.indexes = Range(s.values)
    /\ \A v \in Range(s.values) : s.values[s.indexes[v] + 1] = v

\* the values the call c, on a set with elements list, inserts and removes
InsertedBy(list, c) ==
    CASE c.op \in {"add", "push"} -> <<c.args[1]>>
      [] c.op = "update" -> c.args
      [] c.op \in {"insert", "setitem"} -> <<c.args[2]>>
      [] OTHER -> <<>>

RemovedBy(list, c) ==
    CASE c.op \in {"remove", "discard"} -> {c.args[1]}
      [] c.op \in {"delitem", "pop"} /\ InRange(Len(list), c.args[1])
            -> {GetItem(list, c.args[1])}
      [] c.op = "setitem" /\ InRange(Len(list), c.args[1])
            -> {GetItem(list, c.args[1])} \ {c.args[2]}
      [] OTHER -> {}

\* C11: after every insertion (add, push, update, insert, positional set)
\* and removal (remove, discard, positional delete, pop) that returns,
\* contains(x) is true exactly of the values that were held or inserted and
\* not removed, iteration yields exactly those values, each once, and after
\* add, push and update in first-occurrence order.
C11_ContainsAndIterationFollowCalls ==
    [][(call'.op \in Mutators /\ call'.err = "" /\ Sound(sets[call'.on]))
         => LET s == sets[call'.on]
                after == sets'[call'.on]
                held == (Range(s.values) \ RemovedBy(s.values, call'))
                           \cup Range(InsertedBy(s.values, call'))
            IN  /\ \A x \in Elems : Contains(after, x) <=> x \in held
                /\ Range(after.values) = held
                /\ \A x \in held : Cardinality(PositionsOf(after.values, x)) = 1
                /\ call'.op \in {"add", "push", "update"}
                      => after.values = FromKeys(InsertedBy(s.values, call'), s.values)
      ]_vars

\* C12: whenever the hash of a hashable set is queried, the value returned
\* is the sum of the hashes of the elements the set holds at that moment,
\* and it is the value every earlier query returned.
C12_HashIsSumOfElements ==
    [][(call'.op = "hash" /\ call'.err = "")
         => /\ call'.ret = Some(SumHash(sets[call'.on].values))
            /\ sets[call'.on].hash # None => call'.ret = sets[call'.on].hash
      ]_vars

\* list without the element at position i, the last element moved there
SwapRemove(list, i) ==
    IF i = Len(list) - 1 THEN SubSeq(list, 1, Len(list) - 1)
    ELSE [SubSeq(list, 1, Len(list) - 1) EXCEPT ![i + 1] = list[Len(list)]]

\* C13: remove(v) on a mutable set that contains v deletes v, moves the
\* element that was last into v's former position (nothing moves when v was
\* last) and leaves every other element at its position; remove(v) on a set
\* that does not contain v fails and leaves the set unchanged.
C13_RemoveSwapsWithLast ==
    [][(/\ call'.op = "remove"
        /\ sets[call'.on].cls # "HashableSequentialSet"
        /\ sets[call'.on].hash = None)
         => LET s == sets[call'.on]
                v == call'.args[1]
            IN  IF v \in Range(s.values)
                THEN /\ call'.err = ""
                     /\ \E i \in PositionsOf(s.values, v) :
                           sets'[call'.on].values = SwapRemove(s.values, i)
                ELSE /\ call'.err # ""
                     /\ sets'[call'.on] = s
      ]_vars

\* the turn of the loop that starts in this state is a reduce by rule
Reducing(rule) ==
    /\ pc = "loop"
    /\ ActionsProperty.err = ""
    /\ Lookup(ActionsProperty.actions) = Reduce(rule)

\* the nodes among the cells of the stack from position from (counted from 1)
NodesFrom(from) == [k \in 1 .. (Len(stack) - from + 1) \div 2 |-> stack[from + 2 * k - 2]]

\* C14: a reduce step by rule r, also one with an empty body, removes the
\* 2 * len(r.body) cells on top of the stack, pushes a node named r.head
\* whose children are the removed nodes in their order and then the state
\* GOTO(newly exposed top state, r.head), and leaves the current token and
\* its span unchanged.
C14_ReducePopsBodyPushesHead ==
    [][\A r \in Range(grammar.rule_list) :
          Reducing(r) =>
             LET kept == Len(stack) - 2 * Len(r.body)
             IN  /\ pc' = "loop"
                 /\ Len(stack') = kept + 2
                 /\ SubSeq(stack', 1, kept) = SubSeq(stack, 1, kept)
                 /\ stack'[kept + 1].name = r.head
                 /\ stack'[kept + 1].value = NodesFrom(kept + 1)
                 /\ stack'[kept + 2]
                       = ActionsProperty.cache.item_sets_and_gotos[1].gotos[<<stack[kept], r.head>>]
                 /\ cur_token' = cur_token
                 /\ cur_span' = cur_span
      ]_vars

\* the ACTION table that holds one entry for each action claimed
TableOf(claimed) ==
    [key \in {c[1] : c \in claimed} |->
        LET c == CHOOSE d \in claimed : d[1] = key
        IN  IF c[2] = "shift" THEN Shift(c[3])
            ELSE IF c[2] = "reduce" THEN Reduce(c[3])
            ELSE Accept]

AllClaims(built) ==
    UNION {Claims(built.syntax, built.tables, i) :
              i \in 0 .. Len(built.tables.item_sets) - 1}

\* C15: the ACTION table of a conflict-free grammar holds exactly shift(j)
\* at (s, t) for every recorded GOTO(s, t) = j on a terminal t, reduce(rule)
\* at (s, follower) for every completed item of closure(state s) whose rule
\* is a grammar rule, and accept at (s, null) for the completed synthetic
\* root item with null follower.
C15_ActionTableEntries ==
    (grammar \notin Conflicting /\ cache.actions # None)
        => cache.actions[1] = TableOf(AllClaims(Built[grammar]))

\* C15, witness: a published table with a shift, a reduce and the accept
C15_Witness ==
    /\ grammar \notin Conflicting
    /\ cache.actions # None
    /\ \E k1, k2, k3 \in DOMAIN cache.actions[1] :
          /\ cache.actions[1][k1][1] = "shift"
          /\ cache.actions[1][k2][1] = "reduce"
          /\ cache.actions[1][k3] = Accept

\* the items of closure(item_set) with X right after the dot, the dot advanced
Advanced(syntax, item_set, X) ==
    {LR1Item(it.dot + 1, it.rule, it.follower) :
        it \in {c \in Range(lr1_closure(syntax, item_set)) : LR1Item_next(c) = X}}

\* tables is what the claim C16 says of the root node's item sets and gotos
CanonicalCollection(syntax, root_node, tables) ==
    LET n == Len(tables.item_sets)
    IN  /\ tables.item_sets[1] = <<LR1Item(0, Rule(NoneSym, <<root_node>>), NoneSym)>>
        /\ DOMAIN tables.gotos \subseteq (0 .. n - 1) \X Range(syntax.symbols)
        /\ \A s \in 0 .. n - 1 : \A X \in Range(syntax.symbols) :
              LET adv == Advanced(syntax, tables.item_sets[s + 1], X)
              IN  /\ <<s, X>> \in DOMAIN tables.gotos <=> adv # {}
                  /\ adv # {} =>
                        /\ tables.gotos[<<s, X>>] \in 0 .. n - 1
                        /\ Range(tables.item_sets[tables.gotos[<<s, X>>] + 1]) = adv
        /\ \A a, b \in 1 .. n :
              a # b => Range(tables.item_sets[a]) # Range(tables.item_sets[b])

\* C16: when item_sets_and_gotos has finished, state 0 is the core holding
\* only the synthetic root item; gotos[s, X] is recorded exactly when an
\* item of closure(item_sets[s]) has X right after its dot, and its target
\* is the set of those items with the dot advanced; no two states hold equal
\* item sets; every state, the last ones too, has its transitions.
C16_CanonicalItemSets ==
    cache.item_sets_and_gotos # None
        => CanonicalCollection(Built[grammar].syntax, grammar.root_node,
                               cache.item_sets_and_gotos[1])

\* C16, witness: tables in which a state was found a second time and the
\* state found last has a transition
C16_Witness ==
    /\ cache.item_sets_and_gotos # None
    /\ LET tables == cache.item_sets_and_gotos[1]
       IN  /\ \E k1, k2 \in DOMAIN tables.gotos :
                 k1 # k2 /\ tables.gotos[k1] = tables.gotos[k2]
           /\ \E k \in DOMAIN tables.gotos : k[1] >= 2

\* the items (dot 0, rule, f) that the items of the set S call for
Expansion(syntax, S) ==
    UNION {{LR1Item(0, rule, f) :
               rule \in (IF LR1Item_next(it) \in DOMAIN syntax.rules
                         THEN Range(syntax.rules[LR1Item_next(it)]) ELSE {}),
               f \in Range(get_sequence_prefixes(syntax,
                               LR1Item_tail(it) \o <<it.follower>>))} :
           it \in S}

\* the least set that contains S and its own expansion
RECURSIVE LeastClosed(_, _)
LeastClosed(syntax, S) ==
    IF Expansion(syntax, S) \subseteq S THEN S
    ELSE LeastClosed(syntax, S \cup Expansion(syntax, S))

\* C17: lr1_closure(core) returns, each item once, the least item set that
\* contains every core item and, for each of its items with a nonterminal B
\* after the dot, each rule of B and each f of get_sequence_prefixes(rest of
\* the body + follower), the item (dot 0, rule, f); the core is not changed.
C17_ClosureIsLeastClosedSet ==
    cache.item_sets_and_gotos # None =>
        \A core \in Range(cache.item_sets_and_gotos[1].item_sets) :
            LET closure == lr1_closure(Built[grammar].syntax, core)
            IN  /\ Range(closure) = LeastClosed(Built[grammar].syntax, Range(core))
                /\ Cardinality(Range(closure)) = Len(closure)
                /\ SubSeq(closure, 1, Len(core)) = core

\* C17, witness: a closure holding an item that only an added item calls for
C17_Witness ==
    /\ cache.item_sets_and_gotos # None
    /\ \E core \in Range(cache.item_sets_and_gotos[1].item_sets) :
          Range(lr1_closure(Built[grammar].syntax, core))
             # Range(core) \cup Expansion(Built[grammar].syntax, Range(core))


-----------------------------------------------------------------------------
(* Properties of Syntax.prefixes *)

\* the terminals of a grammar, and the null marker
TerminalsAndNull(rule_list) == Range(Syntax_tokens(rule_list)) \cup {NoneSym}

\* every prefix set of f is made of terminals and the null marker
WithinTerminals(f) ==
    \A s \in DOMAIN f.prefixes :
        Range(f.prefixes[s]) \subseteq TerminalsAndNull(f.rule_list)

\* a pass that is not the last one adds an element to some node's set, and a
\* node's set holds terminals and the marker: no more passes than this
PassLimit(rule_list) ==
    1 + Len(Syntax_nodes(rule_list)) * (Len(Syntax_tokens(rule_list)) + 1)

\* C18: the prefixes fixpoint terminates (it never begins more passes than
\* there are elements to add, plus the one that adds nothing, and every pass
\* goes on to its end), every symbol's
\* prefix set only grows as the passes go, and every prefix set stays within
\* the terminals and the null marker.
C18_PrefixesGrowWithinTerminals ==
    [][/\ WithinTerminals(fix) /\ WithinTerminals(fix')
       /\ \A s \in DOMAIN fix.prefixes :
             Range(fix.prefixes[s]) \subseteq Range(fix'.prefixes[s])
       /\ fix'.passes <= PassLimit(fix.rule_list)
       /\ fix.pc = "pass" => ENABLED FixNext]_vars

\* C18: prefixes returned after three passes, a node's set having grown to
\* hold a terminal and the marker
C18_Witness ==
    /\ fix.pc = "returned"
    /\ fix.passes = 3
    /\ \E s \in Range(Syntax_nodes(fix.rule_list)) :
          /\ NoneSym \in Range(fix.prefixes[s])
          /\ Range(fix.prefixes[s]) \cap Range(Syntax_tokens(fix.rule_list)) # {}


\* the heads of the rules whose body is made of symbols of N only
NullableIn(rule_list, N) ==
    {rule_list[i].head : i \in {j \in 1 .. Len(rule_list) :
                                   Range(rule_list[j].body) \subseteq N}}

\* the nonterminals that derive the empty string in at most n levels of rules
RECURSIVE Nullables(_, _)
Nullables(rule_list, n) ==
    IF n = 0 THEN {} ELSE NullableIn(rule_list, Nullables(rule_list, n - 1))

\* the nonterminals that derive the empty string
Nullable(rule_list) == Nullables(rule_list, Len(Syntax_nodes(rule_list)))

\* the symbols X of a body u X v with u deriving the empty string
BodyBegins(rule_list, body) ==
    {body[k] : k \in {i \in 1 .. Len(body) :
                         \A j \in 1 .. i - 1 : body[j] \in Nullable(rule_list)}}

\* the symbols X with N -> u X v for a rule of N and u deriving the empty string
Begins(rule_list, N) ==
    UNION {BodyBegins(rule_list, rule_list[i].body) :
             i \in {j \in 1 .. Len(rule_list) : rule_list[j].head = N}}

\* the symbols that begin a string derived from a symbol of S in at most n steps
RECURSIVE BeginsWithin(_, _, _)
BeginsWithin(rule_list, S, n) ==
    IF n = 0 THEN S
    ELSE BeginsWithin(rule_list, S \cup UNION {Begins(rule_list, N) : N \in S}, n - 1)

\* FIRST with nullability: the terminals that begin a string derived from N,
\* and the null marker when N derives the empty string
FIRST(rule_list, N) ==
    (BeginsWithin(rule_list, {N}, Len(Syntax_nodes(rule_list)))
        \cap Range(Syntax_tokens(rule_list)))
    \cup (IF N \in Nullable(rule_list) THEN {NoneSym} ELSE {})

\* C19: the prefixes returned are the FIRST sets with nullability: {t} for a
\* terminal t; for a nonterminal N the terminals that begin a string derived
\* from N, and the null marker exactly when N derives the empty string.
C19_PrefixesAreFirstSets ==
    fix.pc = "returned" =>
        /\ \A t \in Range(Syntax_tokens(fix.rule_list)) : fix.prefixes[t] = <<t>>
        /\ \A N \in Range(Syntax_nodes(fix.rule_list)) :
              Range(fix.prefixes[N]) = FIRST(fix.rule_list, N)
        /\ DOMAIN fix.prefixes = Range(Syntax_symbols(fix.rule_list))
        /\ fix.prefixes = Syntax_prefixes(fix.rule_list)

\* C19: prefixes returned for A -> empty | "x" B with the marker in
\* prefixes[A]
C19_Witness ==
    /\ fix.pc = "returned"
    /\ fix.rule_list = <<Rule("A", <<>>), Rule("A", <<"x", "B">>)>>
    /\ Range(fix.prefixes["A"]) = {NoneSym, "x"}


\* the turn of the loop that starts in this state is the accept
Accepting ==
    /\ pc = "loop"
    /\ ActionsProperty.err = ""
    /\ Lookup(ActionsProperty.actions) = Accept

\* C20: when the accept action fires, the stack is exactly state 0, one
\* node and one state, the node is named the parser's start nonterminal, and
\* parse() returns that node.
C20_AcceptReturnsTheOnlyNode ==
    [][Accepting =>
          /\ Len(stack) = 3
          /\ stack[1] = 0
          /\ stack[2] = Node(grammar.root_node, stack[2].span, stack[2].value)
          /\ stack[3] \in 1 .. Len(Built[grammar].tables.item_sets) - 1
          /\ pc' = "returned"
          /\ returned' = Some(stack[2])]_vars

\* C20: parse() returned after an accept that followed a reduce by the
\* left-recursive rule of the start nonterminal
C20_Witness ==
    /\ pc = "returned"
    /\ grammar = ListGrammar
    /\ cur_source = "ba"
    /\ returned # None
    /\ returned[1].name = "L"
    /\ Len(returned[1].value) = 2


\* the value-to-position map of s agrees with its element sequence: its keys
\* are the elements, and index(v), with the default start and stop, is the
\* position at which iteration yields v
MapAgrees(s) ==
    /\ DOMAIN s.indexes = Range(s.values)
    /\ \A v \in Range(s.values) :
          PositionsOf(s.values, v) = {SequentialSet_index(s, v, 0, None)}

\* C21: a call that changes a mutable set and returns, made on a set whose
\* value-to-position map agrees with its element sequence, leaves them in
\* agreement, so they agree after any sequence of successful operations,
\* positional delete, insert, set and pop at negative positions and at
\* positions past the end included.
C21_IndexMapAgreesWithSequence ==
    [][(call'.op \in Mutators /\ call'.err = "" /\ MapAgrees(sets[call'.on]))
         => MapAgrees(sets'[call'.on])]_vars


\* the state a reduce by rule exposes: the one under the 2 * len(rule.body)
\* cells of the body
Exposed(rule) == stack[Len(stack) - 2 * Len(rule.body)]

=============================================================================
